---- MODULE Spec2Model ----
(***************************************************************************)
(* Model of immuneML's IGoRImport: the codon-wise translator               *)
(* (translate_sequence, CODON_TABLE) and the row pipeline                  *)
(* (preprocess_dataframe).  Strings are sequences of one-character         *)
(* strings; a data frame is a record of its column names and its rows,     *)
(* each row carrying its pandas index label and its cell values.           *)
(***************************************************************************)
EXTENDS Integers, Sequences, FiniteSets, TLC

VARIABLES
    params,         \* DatasetImportParams of the call
    sequence_type,  \* EnvironmentSettings' active sequence type
    input,          \* the table as the caller built it (history)
    callerDf,       \* the caller's data frame object
    stages,         \* successive values of the local df inside the call
    result,         \* value returned by preprocess_dataframe (or the error raised)
    result2,        \* value returned by a second call on the first result
    nt_seq,         \* argument of a direct translate_sequence call
    aa_seq,         \* value returned by that call
    pc

vars == <<params, sequence_type, input, callerDf, stages, result, result2, nt_seq, aa_seq, pc>>

(* ------------------------------ bounds --------------------------------- *)
MaxNtLen == 7
MaxRows == 2

(* ---------------------------- translator ------------------------------- *)
\* mutant: TGA read as tryptophan, as in the mitochondrial code
CODON_TABLE_TGA_W ==
    <<"A","T","A">> :> "I" @@ <<"A","T","C">> :> "I" @@ <<"A","T","T">> :> "I" @@ <<"A","T","G">> :> "M" @@
    <<"A","C","A">> :> "T" @@ <<"A","C","C">> :> "T" @@ <<"A","C","G">> :> "T" @@ <<"A","C","T">> :> "T" @@
    <<"A","A","C">> :> "N" @@ <<"A","A","T">> :> "N" @@ <<"A","A","A">> :> "K" @@ <<"A","A","G">> :> "K" @@
    <<"A","G","C">> :> "S" @@ <<"A","G","T">> :> "S" @@ <<"A","G","A">> :> "R" @@ <<"A","G","G">> :> "R" @@
    <<"C","T","A">> :> "L" @@ <<"C","T","C">> :> "L" @@ <<"C","T","G">> :> "L" @@ <<"C","T","T">> :> "L" @@
    <<"C","C","A">> :> "P" @@ <<"C","C","C">> :> "P" @@ <<"C","C","G">> :> "P" @@ <<"C","C","T">> :> "P" @@
    <<"C","A","C">> :> "H" @@ <<"C","A","T">> :> "H" @@ <<"C","A","A">> :> "Q" @@ <<"C","A","G">> :> "Q" @@
    <<"C","G","A">> :> "R" @@ <<"C","G","C">> :> "R" @@ <<"C","G","G">> :> "R" @@ <<"C","G","T">> :> "R" @@
    <<"G","T","A">> :> "V" @@ <<"G","T","C">> :> "V" @@ <<"G","T","G">> :> "V" @@ <<"G","T","T">> :> "V" @@
    <<"G","C","A">> :> "A" @@ <<"G","C","C">> :> "A" @@ <<"G","C","G">> :> "A" @@ <<"G","C","T">> :> "A" @@
    <<"G","A","C">> :> "D" @@ <<"G","A","T">> :> "D" @@ <<"G","A","A">> :> "E" @@ <<"G","A","G">> :> "E" @@
    <<"G","G","A">> :> "G" @@ <<"G","G","C">> :> "G" @@ <<"G","G","G">> :> "G" @@ <<"G","G","T">> :> "G" @@
    <<"T","C","A">> :> "S" @@ <<"T","C","C">> :> "S" @@ <<"T","C","G">> :> "S" @@ <<"T","C","T">> :> "S" @@
    <<"T","T","C">> :> "F" @@ <<"T","T","T">> :> "F" @@ <<"T","T","A">> :> "L" @@ <<"T","T","G">> :> "L" @@
    <<"T","A","C">> :> "Y" @@ <<"T","A","T">> :> "Y" @@ <<"T","A","A">> :> "*" @@ <<"T","A","G">> :> "*" @@
    <<"T","G","C">> :> "C" @@ <<"T","G","T">> :> "C" @@ <<"T","G","A">> :> "W" @@ <<"T","G","G">> :> "W"

CODON_TABLE ==
    <<"A","T","A">> :> "I" @@ <<"A","T","C">> :> "I" @@ <<"A","T","T">> :> "I" @@ <<"A","T","G">> :> "M" @@
    <<"A","C","A">> :> "T" @@ <<"A","C","C">> :> "T" @@ <<"A","C","G">> :> "T" @@ <<"A","C","T">> :> "T" @@
    <<"A","A","C">> :> "N" @@ <<"A","A","T">> :> "N" @@ <<"A","A","A">> :> "K" @@ <<"A","A","G">> :> "K" @@
    <<"A","G","C">> :> "S" @@ <<"A","G","T">> :> "S" @@ <<"A","G","A">> :> "R" @@ <<"A","G","G">> :> "R" @@
    <<"C","T","A">> :> "L" @@ <<"C","T","C">> :> "L" @@ <<"C","T","G">> :> "L" @@ <<"C","T","T">> :> "L" @@
    <<"C","C","A">> :> "P" @@ <<"C","C","C">> :> "P" @@ <<"C","C","G">> :> "P" @@ <<"C","C","T">> :> "P" @@
    <<"C","A","C">> :> "H" @@ <<"C","A","T">> :> "H" @@ <<"C","A","A">> :> "Q" @@ <<"C","A","G">> :> "Q" @@
    <<"C","G","A">> :> "R" @@ <<"C","G","C">> :> "R" @@ <<"C","G","G">> :> "R" @@ <<"C","G","T">> :> "R" @@
    <<"G","T","A">> :> "V" @@ <<"G","T","C">> :> "V" @@ <<"G","T","G">> :> "V" @@ <<"G","T","T">> :> "V" @@
    <<"G","C","A">> :> "A" @@ <<"G","C","C">> :> "A" @@ <<"G","C","G">> :> "A" @@ <<"G","C","T">> :> "A" @@
    <<"G","A","C">> :> "D" @@ <<"G","A","T">> :> "D" @@ <<"G","A","A">> :> "E" @@ <<"G","A","G">> :> "E" @@
    <<"G","G","A">> :> "G" @@ <<"G","G","C">> :> "G" @@ <<"G","G","G">> :> "G" @@ <<"G","G","T">> :> "G" @@
    <<"T","C","A">> :> "S" @@ <<"T","C","C">> :> "S" @@ <<"T","C","G">> :> "S" @@ <<"T","C","T">> :> "S" @@
    <<"T","T","C">> :> "F" @@ <<"T","T","T">> :> "F" @@ <<"T","T","A">> :> "L" @@ <<"T","T","G">> :> "L" @@
    <<"T","A","C">> :> "Y" @@ <<"T","A","T">> :> "Y" @@ <<"T","A","A">> :> "*" @@ <<"T","A","G">> :> "*" @@
    <<"T","G","C">> :> "C" @@ <<"T","G","T">> :> "C" @@ <<"T","G","A">> :> "*" @@ <<"T","G","G">> :> "W"

STOP_CODON == "*"
UNKNOWN_RESIDUE == "_"

\* nt_seq[i:i + 3] of Python, for a 0-based i with i + 3 <= len(nt_seq)
Codon(s, i) == SubSeq(s, i + 1, i + 3)

\* body of the for loop: one residue per codon, "_" for a codon that is no key
RECURSIVE translate_loop(_, _, _)
translate_loop(s, i, end) ==
    IF i >= end THEN <<>>
    ELSE LET codon == Codon(s, i)
             aminoacid == IF codon \in DOMAIN CODON_TABLE
                          THEN CODON_TABLE[codon] ELSE UNKNOWN_RESIDUE
         IN  <<aminoacid>> \o translate_loop(s, i + 3, end)

\* mutant: the loop bound is one codon short
translate_sequence_short(s) ==
    translate_loop(s, 0, Len(s) - (Len(s) % 3) - 3)

translate_sequence(s) ==
    translate_loop(s, 0, Len(s) - (Len(s) % 3) - 1)

(* ---------------------------- data frames ------------------------------ *)
\* a data frame; err marks the exception that replaced it
Frame(cols, rows) == [err |-> FALSE, columns |-> cols, rows |-> rows]

\* an exception propagated to the caller: AttributeError / KeyError of a column
\* access, ValueError of a scalar assigned to a new column of a frame without rows
Error == [err |-> TRUE, columns |-> {}, rows |-> <<>>]

\* df[col] = val(row): adds the column or overwrites it, row by row
SetColumn(df, col, val(_)) ==
    Frame(df.columns \cup {col},
          [k \in DOMAIN df.rows |->
              LET r == df.rows[k]
              IN  [index |-> r.index,
                   v |-> [c \in df.columns \cup {col} |->
                             IF c = col THEN val(r) ELSE r.v[c]]]])

\* df[mask]: a new frame with the rows the mask keeps, order and index kept
FilterRows(df, keep(_)) == Frame(df.columns, SelectSeq(df.rows, keep))

Contains(s, ch) == \E i \in DOMAIN s : s[i] = ch

\* Python's s[a:-a] for a >= 1
Strip(s, a) == SubSeq(s, a + 1, Len(s) - a)

(* ------------------------- pipeline stages ----------------------------- *)
\* mutant: counts is set to 1 whether or not the column exists
AddCountsAlways(df) == SetColumn(df, "counts", LAMBDA r : 1)

AddCounts(df) ==
    IF "counts" \notin df.columns THEN SetColumn(df, "counts", LAMBDA r : 1) ELSE df

\* mutant: the anchors test is dropped
AnchorFilterNone(df) ==
    IF df.err THEN df
    ELSE IF "anchors_found" \notin df.columns THEN Error
    ELSE df

AnchorFilter(df) ==
    IF df.err THEN df
    ELSE IF "anchors_found" \notin df.columns THEN Error
    ELSE FilterRows(df, LAMBDA r : r.v["anchors_found"] = "1")

\* mutant: the frame filter runs whatever import_out_of_frame says
FrameFilterAlways(df, p) ==
    IF df.err THEN df
    ELSE IF "is_inframe" \notin df.columns THEN Error
    ELSE FilterRows(df, LAMBDA r : r.v["is_inframe"] = "1")

FrameFilter(df, p) ==
    IF df.err THEN df
    ELSE IF p.import_out_of_frame THEN df
    ELSE IF "is_inframe" \notin df.columns THEN Error
    ELSE FilterRows(df, LAMBDA r : r.v["is_inframe"] = "1")

TranslateStage(df) ==
    IF df.err THEN df
    ELSE IF "sequences" \notin df.columns THEN Error
    ELSE SetColumn(df, "sequence_aas", LAMBDA r : translate_sequence(r.v["sequences"]))

\* df[[]]: an empty list is no boolean mask but a selection of no columns
NoColumns(df) == Frame({}, df.rows)

\* mutant: only a trailing stop codon is looked for
StopCodonFilterLast(df, p) ==
    IF df.err \/ p.import_with_stop_codon THEN df
    ELSE IF df.rows = <<>> THEN NoColumns(df)
    ELSE FilterRows(df, LAMBDA r : LET s == r.v["sequence_aas"]
                                   IN  ~(s # <<>> /\ s[Len(s)] = STOP_CODON))

\* the mask is a Python list, one entry per row; for a frame without rows it is
\* the empty list and df[no_stop_codon] selects no columns
StopCodonFilter(df, p) ==
    IF df.err \/ p.import_with_stop_codon THEN df
    ELSE IF df.rows = <<>> THEN NoColumns(df)
    ELSE FilterRows(df, LAMBDA r : ~Contains(r.v["sequence_aas"], STOP_CODON))

\* df[col] = df[col].str[a:-a] for a column the frame has, nothing otherwise
ShortenColumn(df, col, a) ==
    IF col \in df.columns
    THEN Frame(df.columns,
               [k \in DOMAIN df.rows |->
                   [index |-> df.rows[k].index,
                    v |-> [c \in df.columns |->
                              IF c = col THEN Strip(df.rows[k].v[c], a) ELSE df.rows[k].v[c]]]])
    ELSE df

\* ImportHelper.junction_to_cdr3: for IMGT_CDR3 the first and last residue
\* (and the first and last codon) are removed, in place
junction_to_cdr3(df, region_type) ==
    IF region_type = "IMGT_CDR3"
    THEN ShortenColumn(ShortenColumn(df, "sequence_aas", 1), "sequences", 3)
    ELSE df

\* mutant: the region type passed on is always IMGT_CDR3
TrimStageAlways(df, p) ==
    IF df.err THEN df ELSE junction_to_cdr3(df, "IMGT_CDR3")

TrimStage(df, p) ==
    IF df.err THEN df ELSE junction_to_cdr3(df, p.region_type)

\* df.loc[:, "region_types"] = name: a scalar cannot be set on a new column of a
\* frame without rows (ValueError); an existing column is overwritten
SetRegionType(df, p) ==
    IF df.err THEN df
    ELSE IF df.rows = <<>> /\ "region_types" \notin df.columns THEN Error
    ELSE SetColumn(df, "region_types", LAMBDA r : p.region_type)

\* ImportHelper.drop_empty_sequences(df, import_empty_aa_sequences, import_empty_nt_sequences)
drop_empty_sequences(df, import_empty_aa_sequences, import_empty_nt_sequences) ==
    FilterRows(df, LAMBDA r :
        /\ import_empty_aa_sequences \/ r.v["sequence_aas"] # <<>>
        /\ import_empty_nt_sequences \/ r.v["sequences"] # <<>>)

\* mutant: the nucleotide flag is passed negated
DropEmptyStageNegated(df, p) ==
    IF df.err THEN df ELSE drop_empty_sequences(df, TRUE, ~p.import_empty_nt_sequences)

DropEmptyStage(df, p) ==
    IF df.err THEN df ELSE drop_empty_sequences(df, TRUE, p.import_empty_nt_sequences)

AMINO_ACID_ALPHABET ==
    {"A", "C", "D", "E", "F", "G", "H", "I", "K", "L",
     "M", "N", "P", "Q", "R", "S", "T", "V", "W", "Y"}

NUCLEOTIDE_ALPHABET == {"A", "C", "G", "T"}

\* the alphabet of the active sequence type; the stop codon is legal in amino-acid mode
LegalAlphabet(st) ==
    IF st = "AMINO_ACID" THEN AMINO_ACID_ALPHABET \cup {STOP_CODON} ELSE NUCLEOTIDE_ALPHABET

SequenceColumn(st) == IF st = "AMINO_ACID" THEN "sequence_aas" ELSE "sequences"

IsIllegal(s, st) == \E i \in DOMAIN s : s[i] \notin LegalAlphabet(st)

\* ImportHelper.drop_illegal_character_sequences(df, import_illegal_characters)
drop_illegal_character_sequences(df, import_illegal_characters, st) ==
    IF import_illegal_characters THEN df
    ELSE FilterRows(df, LAMBDA r : ~IsIllegal(r.v[SequenceColumn(st)], st))

\* mutant: the flag is passed negated
DropIllegalStageNegated(df, p, st) ==
    IF df.err THEN df
    ELSE drop_illegal_character_sequences(df, ~p.import_illegal_characters, st)

DropIllegalStage(df, p, st) ==
    IF df.err THEN df
    ELSE drop_illegal_character_sequences(df, p.import_illegal_characters, st)

\* the successive values of df in preprocess_dataframe
Stages(df, p, st) ==
    LET counted    == AddCounts(df)
        anchored   == AnchorFilter(counted)
        framed     == FrameFilter(anchored, p)
        translated == TranslateStage(framed)
        nostop     == StopCodonFilter(translated, p)
        trimmed    == TrimStage(nostop, p)
        regioned   == SetRegionType(trimmed, p)
        nonempty   == DropEmptyStage(regioned, p)
        legal      == DropIllegalStage(nonempty, p, st)
    IN  [counted |-> counted, anchored |-> anchored, framed |-> framed,
         translated |-> translated, nostop |-> nostop, trimmed |-> trimmed,
         regioned |-> regioned, nonempty |-> nonempty, legal |-> legal]

preprocess_dataframe(df, p, st) == Stages(df, p, st).legal

(* ------------------------------ inputs --------------------------------- *)
ATG == <<"A", "T", "G">>
AAA == <<"A", "A", "A">>
TAG == <<"T", "A", "G">>
NNN == <<"N", "N", "N">>

\* nucleotide sequences of the input rows: empty, shorter than a codon, with a
\* trailing base, with a stop codon first / in the middle / last, with an
\* unknown codon first / in the middle, and plain ones of two to four codons
NtFixtures ==
    { <<>>,
      <<"A", "T">>,
      ATG \o AAA,
      ATG \o AAA \o <<"T">>,
      ATG \o AAA \o TAG,
      TAG \o AAA \o AAA,
      AAA \o TAG \o AAA,
      ATG \o NNN \o AAA,
      NNN \o AAA \o ATG,
      ATG \o AAA \o AAA \o ATG }

Flags == {"0", "1"}

InputColumns == {"anchors_found", "is_inframe", "sequences", "counts"}

\* the column sets of the input tables: complete, without counts, and with one
\* of the columns the pipeline reads missing
ColumnSets ==
    { InputColumns \ m : m \in { {}, {"counts"}, {"anchors_found"}, {"is_inframe"},
                                  {"sequences"}, {"counts", "is_inframe"} } }

Cell(a, f, s, n) ==
    [c \in InputColumns |->
        CASE c = "anchors_found" -> a
          [] c = "is_inframe"    -> f
          [] c = "sequences"     -> s
          [] c = "counts"        -> n]

\* every fixture as a good row, and rows failing the anchor test, the frame
\* test or both
Cells ==
    { Cell("1", "1", s, 5) : s \in NtFixtures }
    \cup { Cell("0", "1", ATG \o AAA, 5),
           Cell("0", "0", ATG \o AAA \o AAA \o ATG, 5),
           Cell("1", "0", ATG \o AAA \o AAA \o ATG, 5),
           Cell("1", "0", ATG \o NNN \o AAA, 5) }

\* the table of the documented example: a good row ending in a stop codon and
\* a row without anchors
ExampleCells == << Cell("1", "1", ATG \o AAA \o TAG, 5), Cell("0", "1", ATG \o AAA, 5) >>

CellSeqs == UNION { [1..n -> Cells] : n \in 0..MaxRows } \cup {ExampleCells}

\* a frame read from a file: RangeIndex 0..n-1, the given columns
MakeFrame(cols, cells) ==
    Frame(cols, [k \in DOMAIN cells |->
                    [index |-> k - 1, v |-> [c \in cols |-> cells[k][c]]]])

InputTables == { MakeFrame(cols, cells) : cols \in ColumnSets, cells \in CellSeqs }

RegionTypes == {"IMGT_CDR3", "IMGT_JUNCTION"}

SequenceTypes == {"AMINO_ACID", "NUCLEOTIDE"}

Params ==
    [import_with_stop_codon : BOOLEAN, import_out_of_frame : BOOLEAN,
     import_illegal_characters : BOOLEAN, import_empty_nt_sequences : BOOLEAN,
     region_type : RegionTypes]

DefaultParams ==
    [import_with_stop_codon |-> FALSE, import_out_of_frame |-> FALSE,
     import_illegal_characters |-> FALSE, import_empty_nt_sequences |-> TRUE,
     region_type |-> "IMGT_CDR3"]

NtAlphabet == {"A", "C", "G", "T", "N"}

NtStrings == UNION { [1..n -> NtAlphabet] : n \in 0..MaxNtLen }

NoFrame == Frame({}, <<>>)

NoStages ==
    [counted |-> NoFrame, anchored |-> NoFrame, framed |-> NoFrame,
     translated |-> NoFrame, nostop |-> NoFrame, trimmed |-> NoFrame,
     regioned |-> NoFrame, nonempty |-> NoFrame, legal |-> NoFrame]

(* --------------------------- row pipeline ------------------------------ *)
Init ==
    /\ params \in Params
    /\ sequence_type \in SequenceTypes
    /\ input \in InputTables
    /\ callerDf = input
    /\ stages = NoStages
    /\ result = NoFrame
    /\ result2 = NoFrame
    /\ nt_seq = <<>>
    /\ aa_seq = <<>>
    /\ pc = "start"

\* one call preprocess_dataframe(df, params) on the caller's table; the counts
\* column is assigned on the caller's object, every later df is a new frame
Preprocess ==
    /\ pc = "start"
    /\ stages' = Stages(callerDf, params, sequence_type)
    /\ callerDf' = stages'.counted
    /\ result' = stages'.legal
    /\ pc' = "done"
    /\ UNCHANGED <<params, sequence_type, input, result2, nt_seq, aa_seq>>

\* a second call, on the table the first call returned, with the same params
Rerun ==
    /\ pc = "done"
    /\ ~result.err
    /\ result2' = preprocess_dataframe(result, params, sequence_type)
    /\ pc' = "rerun"
    /\ UNCHANGED <<params, sequence_type, input, callerDf, stages, result, nt_seq, aa_seq>>

Next == Preprocess \/ Rerun

Spec == Init /\ [][Next]_vars

(* ----------------------------- translator ------------------------------ *)
InitTranslate ==
    /\ params = DefaultParams
    /\ sequence_type = "AMINO_ACID"
    /\ input = NoFrame
    /\ callerDf = NoFrame
    /\ stages = NoStages
    /\ result = NoFrame
    /\ result2 = NoFrame
    /\ nt_seq \in NtStrings
    /\ aa_seq = <<>>
    /\ pc = "call"

\* one call translate_sequence(nt_seq)
Translate ==
    /\ pc = "call"
    /\ aa_seq' = translate_sequence(nt_seq)
    /\ pc' = "returned"
    /\ UNCHANGED <<params, sequence_type, input, callerDf, stages, result, result2, nt_seq>>

NextTranslate == Translate

SpecTranslate == InitTranslate /\ [][NextTranslate]_vars

(* ------------------------------ claims --------------------------------- *)
Returned == pc = "returned"

\* the codon-wise reference: residue i is the table entry of s[3i..3i+2], "_" when
\* that triplet is no key
ReferenceResidue(s, i) ==
    LET triplet == <<s[3 * i + 1], s[3 * i + 2], s[3 * i + 3]>>
    IN  IF triplet \in DOMAIN CODON_TABLE THEN CODON_TABLE[triplet] ELSE "_"

\* C1: translate_sequence(s) is the codon-wise translation of s: its length is
\* floor(len(s)/3), residue i is CODON_TABLE[s[3i..3i+2]] or "_" for a triplet
\* that is no key, the trailing len(s) mod 3 characters contribute nothing and
\* the empty string gives the empty string.
C1_TranslationIsCodonWise ==
    Returned =>
        /\ Len(aa_seq) = Len(nt_seq) \div 3
        /\ \A i \in 0..(Len(nt_seq) \div 3) - 1 : aa_seq[i + 1] = ReferenceResidue(nt_seq, i)
        /\ nt_seq = <<>> => aa_seq = <<>>

\* a sequence of two codons and a trailing base, one codon known, one unknown
C1_Witness ==
    /\ Returned
    /\ Len(nt_seq) > 6
    /\ Len(nt_seq) % 3 # 0
    /\ Contains(aa_seq, "_")
    /\ \E i \in DOMAIN aa_seq : aa_seq[i] # "_"

Triplets == [1..3 -> NUCLEOTIDE_ALPHABET]

\* the table's part of C2: 64 keys, one symbol each, three stops, one methionine
CodonTableFacts ==
    /\ DOMAIN CODON_TABLE = Triplets
    /\ Cardinality(DOMAIN CODON_TABLE) = 64
    /\ \A c \in Triplets : CODON_TABLE[c] \in AMINO_ACID_ALPHABET \cup {STOP_CODON}
    /\ { c \in Triplets : CODON_TABLE[c] = STOP_CODON }
           = { <<"T", "A", "A">>, <<"T", "A", "G">>, <<"T", "G", "A">> }
    /\ { c \in Triplets : CODON_TABLE[c] = "M" } = { ATG }

\* C2: the codon table is total over the 64 triplets of {A,C,G,T}, each mapped to
\* one single-letter symbol; exactly TAA, TAG and TGA map to "*", only ATG maps
\* to "M", and translate_sequence of a single triplet is its table entry.
C2_CodonTableComplete ==
    /\ CodonTableFacts
    /\ (Returned /\ nt_seq \in Triplets) => aa_seq = <<CODON_TABLE[nt_seq]>>

\* the call on the stop codon TGA has returned "*"
C2_Witness ==
    /\ Returned
    /\ nt_seq = <<"T", "G", "A">>
    /\ aa_seq = <<STOP_CODON>>

\* the call has ended, normally or with an error / with an output table
Finished == pc \in {"done", "rerun"}
Returns == Finished /\ ~result.err

RowsOf(df) == { df.rows[k] : k \in DOMAIN df.rows }
Indices(df) == { r.index : r \in RowsOf(df) }
RowAt(df, idx) == CHOOSE r \in RowsOf(df) : r.index = idx

\* C3: every row of the output has anchors_found = "1"; when import_out_of_frame is
\* false every output row also has is_inframe = "1", and when it is true the frame
\* stage drops no row.
C3_AnchorAndFrameFilter ==
    Returns =>
        /\ \A r \in RowsOf(result) : r.v["anchors_found"] = "1"
        /\ ~params.import_out_of_frame => \A r \in RowsOf(result) : r.v["is_inframe"] = "1"
        /\ params.import_out_of_frame => stages.framed = stages.anchored

\* out-of-frame rows are imported: a row without anchors was dropped and a row
\* with is_inframe = "0" is in the output
C3_Witness ==
    /\ Returns
    /\ params.import_out_of_frame
    /\ \E r \in RowsOf(input) : r.v["anchors_found"] = "0"
    /\ "is_inframe" \in result.columns
    /\ \E r \in RowsOf(result) : r.v["is_inframe"] = "0"

\* C4: when import_with_stop_codon is false every row whose translation contains
\* "*" at any position is dropped by the stop-codon stage and no output row has
\* "*" in its amino-acid sequence; when it is true the stage drops no row.
C4_StopCodonFilter ==
    /\ (Finished /\ ~stages.nostop.err) =>
          /\ ~params.import_with_stop_codon =>
                \A r \in RowsOf(stages.translated) :
                    Contains(r.v["sequence_aas"], STOP_CODON) => r.index \notin Indices(stages.nostop)
          /\ params.import_with_stop_codon => stages.nostop = stages.translated
    /\ (Returns /\ ~params.import_with_stop_codon) =>
          \A r \in RowsOf(result) : ~Contains(r.v["sequence_aas"], STOP_CODON)

\* a row with a stop codon in the middle of its translation was dropped
C4_Witness ==
    /\ Returns
    /\ ~params.import_with_stop_codon
    /\ \E r \in RowsOf(stages.translated) :
          LET s == r.v["sequence_aas"]
          IN  /\ \E i \in 2..Len(s) - 1 : s[i] = STOP_CODON
              /\ s[1] # STOP_CODON /\ s[Len(s)] # STOP_CODON
              /\ r.index \notin Indices(result)

MissingRequiredColumn ==
    \/ "sequences" \notin input.columns
    \/ "anchors_found" \notin input.columns
    \/ "is_inframe" \notin input.columns /\ ~params.import_out_of_frame

\* C8: the call fails with an error and no output table when the table lacks the
\* sequences column, the anchors_found column, or the is_inframe column while
\* import_out_of_frame is false; a missing is_inframe column is no error when
\* import_out_of_frame is true, and for a table that has rows and the columns
\* the configuration requires the call completes whatever rows are disqualified.
C8_MissingColumnIsError ==
    Finished =>
        /\ MissingRequiredColumn => result.err
        /\ (~MissingRequiredColumn /\ input.rows # <<>>) => ~result.err

\* C5 as stated: no output row has an empty amino-acid sequence, and a row with an
\* empty nucleotide sequence is dropped exactly when import_empty_nt_sequences is
\* false.
C5_Original_NoEmptyAminoAcid ==
    Returns =>
        /\ \A r \in RowsOf(result) : r.v["sequence_aas"] # <<>>
        /\ \A r \in RowsOf(stages.regioned) :
              r.v["sequences"] = <<>> =>
                 (r.index \notin Indices(stages.nonempty) <=> ~params.import_empty_nt_sequences)

\* C5 amended: the empty-sequence stage is called with import_empty_aa_sequences =
\* true, so it drops no row for an empty amino-acid sequence; it drops a row
\* exactly when the row's nucleotide sequence is empty after region trimming and
\* import_empty_nt_sequences is false.
C5_EmptyNtDroppedOnRequest ==
    Returns =>
        \A r \in RowsOf(stages.regioned) :
            r.index \notin Indices(stages.nonempty)
                <=> (r.v["sequences"] = <<>> /\ ~params.import_empty_nt_sequences)

\* with import_empty_nt_sequences = false a row with an empty nucleotide sequence
\* was dropped while a row with an empty amino-acid sequence is in the output
C5_Witness ==
    /\ Returns
    /\ ~params.import_empty_nt_sequences
    /\ \E r \in RowsOf(stages.regioned) :
          r.v["sequences"] = <<>> /\ r.index \notin Indices(result)
    /\ \E r \in RowsOf(result) : r.v["sequence_aas"] = <<>> /\ r.v["sequences"] # <<>>

\* C6 as stated: for every configuration, IMGT_CDR3 included, a second run on the
\* output returns a table equal to that output.
C6_Original_Idempotent == pc = "rerun" => result2 = result

\* C6 amended: for every configuration whose region_type is not IMGT_CDR3 (no
\* trimming), a second run on an output that has at least one row returns a table
\* equal to that output (same rows, order, sequences, amino-acid sequences, counts
\* and region types); on an output without rows the second run returns an equal
\* table when import_with_stop_codon is true and fails with an error when it is
\* false.
C6_IdempotentWithoutTrimming ==
    (pc = "rerun" /\ params.region_type # "IMGT_CDR3") =>
        IF result.rows # <<>> \/ params.import_with_stop_codon
        THEN result2 = result
        ELSE result2.err

\* a second run without trimming on an output of one row, the other input row
\* having been dropped by the first run
C6_Witness ==
    /\ pc = "rerun"
    /\ params.region_type # "IMGT_CDR3"
    /\ Len(input.rows) = 2
    /\ Len(result.rows) = 1
    /\ result.rows[1].v["sequence_aas"] # <<>>

\* C7 as stated: after the call the caller's table has the columns, rows and
\* values it had before; no counts column is added to it.
C7_Original_CallerTableUnchanged == Finished => callerDf = input

\* what the code does instead of C7: after the call the caller's table has the rows, the index and the
\* values of its columns that it had before; when it had no counts column, a counts
\* column of value 1 has been added to it in place (also when the call fails); the
\* sequence_aas and region_types columns and all deletions are in the returned
\* table only.
C7_CallerTableGainsOnlyCounts ==
    Finished =>
        /\ callerDf.columns = input.columns \cup {"counts"}
        /\ ~callerDf.err
        /\ Len(callerDf.rows) = Len(input.rows)
        /\ \A k \in DOMAIN input.rows :
              /\ callerDf.rows[k].index = input.rows[k].index
              /\ \A c \in input.columns : callerDf.rows[k].v[c] = input.rows[k].v[c]
              /\ "counts" \notin input.columns => callerDf.rows[k].v["counts"] = 1

\* a table without counts went through a call that dropped a row: the caller's
\* table has the counts column and all its rows
C7_Witness ==
    /\ Returns
    /\ "counts" \notin input.columns
    /\ "counts" \in callerDf.columns
    /\ Len(result.rows) < Len(input.rows)
    /\ result.rows # <<>>
    /\ Len(callerDf.rows) = Len(input.rows)

\* the rows C9 is about, as they stand after translation: in frame, a non-empty
\* nucleotide sequence, a translation with "_" and without "*" that is
\* non-empty after region trimming
UnknownCodonRows ==
    { r \in RowsOf(stages.translated) :
        /\ "is_inframe" \in stages.translated.columns
        /\ r.v["is_inframe"] = "1"
        /\ r.v["sequences"] # <<>>
        /\ Contains(r.v["sequence_aas"], UNKNOWN_RESIDUE)
        /\ ~Contains(r.v["sequence_aas"], STOP_CODON)
        /\ RowAt(stages.trimmed, r.index).v["sequence_aas"] # <<>> }

\* C9 as stated: for every configuration such a row is in the output.
C9_Original_UnknownCodonKept ==
    Returns => \A r \in UnknownCodonRows : r.index \in Indices(result)

\* C9 amended: such a row is in the output whenever import_illegal_characters is
\* true; when it is false the illegal-character stage removes the row exactly
\* when its sequence of the active type still holds, after trimming, a character
\* outside the alphabet (in amino-acid mode a remaining "_").
C9_UnknownCodonKeptUnlessIllegal ==
    Returns =>
        \A r \in UnknownCodonRows :
            r.index \in Indices(result)
                <=> \/ params.import_illegal_characters
                    \/ ~IsIllegal(RowAt(stages.trimmed, r.index).v[SequenceColumn(sequence_type)],
                                  sequence_type)

\* illegal characters are imported and an output row has "_" in its amino-acid
\* sequence
C9_Witness ==
    /\ Returns
    /\ params.import_illegal_characters
    /\ \E r \in UnknownCodonRows :
          /\ r.index \in Indices(result)
          /\ Contains(RowAt(result, r.index).v["sequence_aas"], UNKNOWN_RESIDUE)

ExampleFrame == MakeFrame(InputColumns \ {"counts"}, ExampleCells)

ExampleParams == [DefaultParams EXCEPT !.import_with_stop_codon = TRUE]

ExampleRun == Finished /\ input = ExampleFrame /\ params = ExampleParams

\* C10 as stated: for the example table with import_with_stop_codon = true and the
\* other fields at their defaults, the output is exactly the first row and its
\* amino-acid sequence is "MK*".
C10_Original_ExampleKeepsFullTranslation ==
    ExampleRun =>
        /\ ~result.err
        /\ Indices(result) = {0}
        /\ Len(result.rows) = 1
        /\ result.rows[1].v["sequence_aas"] = <<"M", "K", "*">>

\* C10 amended: for that table and configuration the output is exactly the first
\* row, its amino-acid sequence is "K" (the translation "MK*" without its first
\* and last residue, removed for IMGT_CDR3) and its nucleotide sequence is "AAA".
C10_ExampleIsTrimmed ==
    ExampleRun =>
        /\ ~result.err
        /\ Indices(result) = {0}
        /\ Len(result.rows) = 1
        /\ RowAt(stages.translated, 0).v["sequence_aas"] = <<"M", "K", "*">>
        /\ result.rows[1].v["sequence_aas"] = <<"K">>
        /\ result.rows[1].v["sequences"] = AAA
        /\ result.rows[1].v["region_types"] = "IMGT_CDR3"

\* the example has been run and has returned one row
C10_Witness == ExampleRun /\ pc = "done" /\ Len(result.rows) = 1

====
